---- MODULE Spec2Model ----
(***************************************************************************)
(* Model of service/normalizer.py (georef-ar-api): the request handlers    *)
(* process_entity / process_street / process_address / process_place, the  *)
(* address enrichment loop build_addresses_result, the place composition   *)
(* build_place_result and the pure helpers street_extents and              *)
(* translate_keys.                                                         *)
(*                                                                         *)
(* Python dicts are sequences of <<key, value>> pairs with distinct keys,  *)
(* in insertion order.  The keys of service.names (N.ID, N.FIELDS, ...)    *)
(* are the upper-case strings "ID", "FIELDS", ...; the keys of the backend *)
(* vocabulary are the lower-case strings of the source ('fields', ...).    *)
(***************************************************************************)
EXTENDS Integers, Sequences, FiniteSets, TLC

\* ------------------------------------------------------------------ bounds
\* Largest number of parameter sets in one POST body.
MaxQueries == 2
\* Largest number of hits in one backend result.
MaxHits == 2
\* Largest door number drawn for the inputs of street_extents.
MaxDoor == 3

\* Largest number of keys of the dicts drawn for translate_keys.
MaxKeys == 3

\* Number of threads of the process that handle requests concurrently.
NThreads == 2
\* Largest number of calls of get_elasticsearch and
\* get_postgres_db_connection_pool the threads make together.
MaxCalls == 3

\* --------------------------------------------------------- Python values
\* None where the other values are strings.
None == "None"
\* None where the other values are dicts (sequences of pairs).
NoneDict == << <<>> >>
\* None where the other values are door numbers (which are >= 0).
NoneNum == -1

VARIABLES
    pc,           \* position of the request handler
    request,      \* [endpoint, method] of the request being handled
    app,          \* attributes set on current_app
    pool_out,     \* connections checked out of the relational pool
    baseline,     \* pool_out when the request was received
    body_params,  \* parsed parameter sets of the request
    queries,      \* queries built from them
    formats,      \* format specs built from them
    returned,     \* results as the search backend returned them
    results,      \* the same result objects, mutated in place by the handler
    muni_results, \* results of the municipality layer (place requests)
    qi,           \* address requests: index of the result being enriched
    hi,           \* address requests: index of the hit being enriched
    connection,   \* connection held by build_addresses_result: 0 for none,
                  \* else the number of the getconn call that returned it
    log,          \* calls made to the data layer while handling the request
    response,     \* response built for the request
    fn_in,        \* input of the pure function under check
    fn_out,       \* its output
    lazy          \* the lazily constructed resources as the threads of the
                  \* process see them

vars == <<pc, request, app, pool_out, baseline, body_params, queries, formats,
          returned, results, muni_results, qi, hi, connection, log, response,
          fn_in, fn_out, lazy>>

reqvars == <<pc, request, app, pool_out, baseline, body_params, queries,
             formats, returned, results, muni_results, qi, hi, connection,
             log, response>>

\* ------------------------------------------------------------ Python dicts
RECURSIVE DictHas(_, _)
DictHas(d, k) ==
    IF d = <<>> THEN FALSE
    ELSE IF Head(d)[1] = k THEN TRUE ELSE DictHas(Tail(d), k)

RECURSIVE DictGet(_, _)
DictGet(d, k) ==
    IF Head(d)[1] = k THEN Head(d)[2] ELSE DictGet(Tail(d), k)

RECURSIVE DictSet(_, _, _)
DictSet(d, k, v) ==
    IF d = <<>> THEN << <<k, v>> >>
    ELSE IF Head(d)[1] = k THEN << <<k, v>> >> \o Tail(d)
    ELSE <<Head(d)>> \o DictSet(Tail(d), k, v)

RECURSIVE DictPop(_, _)
DictPop(d, k) ==
    IF d = <<>> THEN <<>>
    ELSE IF Head(d)[1] = k THEN Tail(d)
    ELSE <<Head(d)>> \o DictPop(Tail(d), k)

DictKeys(d) == {d[i][1] : i \in 1..Len(d)}

\* x in list
InList(x, l) == \E i \in 1..Len(l) : l[i] = x

\* ------------------------------------------------------------ QueryResult
QueryResult(entities, iterable, total, offset) ==
    [entities |-> entities, iterable |-> iterable,
     total |-> total, offset |-> offset]

from_single_entity(entity) == QueryResult(<<entity>>, FALSE, 1, 0)

from_entity_list_Swapped(entities, total, offset) ==
    QueryResult(entities, TRUE, offset, total)

from_entity_list(entities, total, offset) ==
    QueryResult(entities, TRUE, total, offset)

\* -------------------------------------------------------- get_index_source
get_index_source_AllIgn(index) ==
    IF index \in {"STATES", "DEPARTMENTS", "MUNICIPALITIES", "LOCALITIES"}
    THEN "SOURCE_IGN"
    ELSE IF index = "STREETS" THEN "SOURCE_IGN"
    ELSE "ValueError"

\* "ValueError" stands for the exception raised for any other index.
get_index_source(index) ==
    IF index \in {"STATES", "DEPARTMENTS", "MUNICIPALITIES"} THEN "SOURCE_IGN"
    ELSE IF index = "LOCALITIES" THEN "SOURCE_BAHRA"
    ELSE IF index = "STREETS" THEN "SOURCE_INDEC"
    ELSE "ValueError"

\* ---------------------------------------------------------- translate_keys
TranslationOfNone(translations, key) == key

\* translations.get(key, key)
TranslationOf(translations, key) ==
    IF DictHas(translations, key) THEN DictGet(translations, key) ELSE key

\* The dict comprehension: pairs are emitted in the order of d.items() and a
\* key emitted twice keeps its first place and takes the later value.
RECURSIVE translate_keys_from(_, _, _, _)
translate_keys_from(acc, d, translations, ignore) ==
    IF d = <<>> THEN acc
    ELSE LET key == Head(d)[1]
             value == Head(d)[2]
         IN  IF InList(key, ignore)
             THEN translate_keys_from(acc, Tail(d), translations, ignore)
             ELSE translate_keys_from(
                      DictSet(acc, TranslationOf(translations, key), value),
                      Tail(d), translations, ignore)

translate_keys(d, translations, ignore) ==
    translate_keys_from(<<>>, d, translations, ignore)

\* { key: d[key] for key in keys if key in d }
RECURSIVE SubDict(_, _)
SubDict(d, keys) ==
    IF keys = <<>> THEN <<>>
    ELSE IF DictHas(d, Head(keys))
         THEN << <<Head(keys), DictGet(d, Head(keys))>> >>
              \o SubDict(d, Tail(keys))
         ELSE SubDict(d, Tail(keys))

\* ---------------------------------------------------------- street_extents
\* The four (start, end) pairs in the order the loop tries them.
ExtentCombinations(door_nums) ==
    LET start_r == DictGet(DictGet(door_nums, "START"), "RIGHT")
        start_l == DictGet(DictGet(door_nums, "START"), "LEFT")
        end_r == DictGet(DictGet(door_nums, "END"), "RIGHT")
        end_l == DictGet(DictGet(door_nums, "END"), "LEFT")
    IN  << <<start_r, end_l>>, <<start_l, end_r>>, <<start_r, end_r>>,
           <<start_l, end_l>> >>

ExtentContainsStrict(start, number, end) == start < number /\ number < end

ExtentContains(start, number, end) == start <= number /\ number <= end

RECURSIVE FirstContaining(_, _)
FirstContaining(combinations, number) ==
    IF combinations = <<>> THEN <<NoneNum, NoneNum>>
    ELSE IF ExtentContains(Head(combinations)[1], number, Head(combinations)[2])
         THEN Head(combinations)
         ELSE FirstContaining(Tail(combinations), number)

street_extents(door_nums, number) ==
    FirstContaining(ExtentCombinations(door_nums), number)

DoorNums(start_l, start_r, end_l, end_r) ==
    << <<"START", << <<"LEFT", start_l>>, <<"RIGHT", start_r>> >> >>,
       <<"END", << <<"LEFT", end_l>>, <<"RIGHT", end_r>> >> >> >>

\* ------------------------------------------------------ str.split, str.join
RECURSIVE SplitFrom(_, _, _)
SplitFrom(cur, s, sep) ==
    IF s = <<>> THEN <<cur>>
    ELSE IF Head(s) = sep THEN <<cur>> \o SplitFrom(<<>>, Tail(s), sep)
    ELSE SplitFrom(Append(cur, Head(s)), Tail(s), sep)

\* s.split(sep): a string is the sequence of its characters
Split(s, sep) == SplitFrom(<<>>, s, sep)

RECURSIVE Join(_, _)
\* sep.join(parts)
Join(parts, sep) ==
    IF parts = <<>> THEN <<>>
    ELSE IF Len(parts) = 1 THEN parts[1]
    ELSE parts[1] \o <<sep>> \o Join(Tail(parts), sep)

Digits == <<"0", "1", "2", "3", "4", "5", "6", "7", "8", "9">>

RECURSIVE Str(_)
\* '{}'.format(number) of a number >= 0
Str(n) ==
    IF n < 10 THEN <<Digits[n + 1]>>
    ELSE Str(n \div 10) \o <<Digits[(n % 10) + 1]>>

\* ------------------------------------------------------------- the inputs
EntityEndpoints == {"STATES", "DEPARTMENTS", "MUNICIPALITIES", "LOCALITIES"}

Endpoints == EntityEndpoints \cup {"STREETS", "ADDRESSES", "PLACE"}

\* Parameter sets the parser returns for the entity and street endpoints.
EntityParams ==
    { << <<"NAME", "x">>, <<"FIELDS", <<"ID", "NAME">> >> >>,
      << <<"ID", "1">>, <<"FIELDS", <<"ID">> >>, <<"FLATTEN", TRUE>>,
         <<"FORMAT", "csv">> >> }

\* Parameter sets the parser returns for the address endpoint: N.ADDRESS is
\* the pair (road name, door number).
AddressParams ==
    { << <<"ADDRESS", <<"Ca", 2>> >>,
         <<"FIELDS", <<"ID", "FULL_NAME", "DOOR_NUM">> >> >>,
      << <<"ADDRESS", <<"Ca", 2>> >>, <<"FIELDS", <<"LOCATION_LAT">> >>,
         <<"FLATTEN", TRUE>> >>,
      << <<"ADDRESS", <<"Ca", 5>> >>,
         <<"FIELDS", <<"DOOR_NUM", "LOCATION_LON">> >>, <<"DEPT", "d">> >>,
      << <<"ADDRESS", <<"Ca", 12>> >>,
         <<"FIELDS", <<"FULL_NAME", "LOCATION_LAT", "LOCATION_LON">> >> >> }

\* Parameter sets the parser returns for the place endpoint.  The handler
\* reads the untranslated query by 'lat' and 'lon', so N.LAT and N.LON are
\* these strings.
PlaceParams ==
    { << <<"lat", 0>>, <<"lon", 0>>, <<"FIELDS", <<"STATE", "DEPT">> >> >>,
      << <<"lat", 1>>, <<"lon", 0>>, <<"FLATTEN", TRUE>> >> }

ParamsOf(endpoint) ==
    IF endpoint = "ADDRESSES" THEN AddressParams
    ELSE IF endpoint = "PLACE" THEN PlaceParams
    ELSE EntityParams

\* The lists of parameter sets a request can parse to: one for a GET, one to
\* MaxQueries for a POST.
ParamLists(endpoint, method) ==
    UNION { [1..n -> ParamsOf(endpoint)] :
            n \in 1..(IF method = "GET" THEN 1 ELSE MaxQueries) }

EntityHits ==
    { << <<"ID", "1">>, <<"NAME", "a">> >>,
      << <<"ID", "2">>, <<"NAME", "b">> >> }

\* Street hits of an address search: "Ca,B,A", whose left and right numbering
\* differ (2 is in its first pair, 5 only in its second), and "Ca", whose
\* first pair is (5, 5) and has no other door number.
StreetHits ==
    { << <<"ID", "s1">>, <<"FULL_NAME", <<"C", "a", ",", "B", ",", "A">> >>,
         <<"DOOR_NUM", DoorNums(1, 2, 3, 6)>>, <<"GEOM", "g1">> >>,
      << <<"ID", "s2">>, <<"FULL_NAME", <<"C", "a">> >>,
         <<"DOOR_NUM", DoorNums(6, 5, 5, 7)>>, <<"GEOM", "g2">> >> }

DepartmentHits ==
    { << <<"ID", "d1">>, <<"NAME", "dept1">>,
         <<"STATE", << <<"ID", "p1">>, <<"NAME", "prov1">> >> >> >>,
      << <<"ID", "d2">>, <<"NAME", "dept2">>,
         <<"STATE", << <<"ID", "p2">>, <<"NAME", "prov2">> >> >> >> }

MunicipalityHits == { << <<"ID", "m1">>, <<"NAME", "muni1">> >> }

\* Sequences of distinct elements of S, of length 0..n
DistinctSeqs(S, n) ==
    { s \in UNION { [1..k -> S] : k \in 0..n } :
        \A i, j \in 1..Len(s) : i # j => s[i] # s[j] }

\* Result objects the backend can return over the hits S: the hits, their
\* total and the offset.  A result of one hit is the second page of four
\* matches; the other results hold every match.
ResultsOver(S, n) ==
    { [hits |-> h, total |-> IF Len(h) = 1 THEN 4 ELSE Len(h),
       offset |-> IF Len(h) = 1 THEN 1 ELSE 0] : h \in DistinctSeqs(S, n) }

\* A point query matches at most one entity of a layer.
PlaceResultsOver(S) ==
    { [hits |-> h, total |-> Len(h), offset |-> 0] : h \in DistinctSeqs(S, 1) }

\* The batch contract of data.search_*: n queries yield n results, in order.
ResultLists(S, n) == [1..n -> ResultsOver(S, MaxHits)]

PlaceResultLists(S, n) == [1..n -> PlaceResultsOver(S)]

\* ------------------------------------------------------- key translations
KeyTranslations(name) ==
    IF name = "STATES" THEN
        << <<"ID", "entity_id">>, <<"NAME", "name">>, <<"EXACT", "exact">>,
           <<"ORDER", "order">>, <<"FIELDS", "fields">>,
           <<"OFFSET", "offset">> >>
    ELSE IF name = "DEPARTMENTS" THEN
        << <<"ID", "entity_id">>, <<"NAME", "name">>, <<"STATE", "state">>,
           <<"EXACT", "exact">>, <<"ORDER", "order">>, <<"FIELDS", "fields">>,
           <<"OFFSET", "offset">> >>
    ELSE IF name = "MUNICIPALITIES" THEN
        << <<"ID", "entity_id">>, <<"NAME", "name">>, <<"STATE", "state">>,
           <<"DEPT", "department">>, <<"EXACT", "exact">>,
           <<"ORDER", "order">>, <<"FIELDS", "fields">>,
           <<"OFFSET", "offset">> >>
    ELSE
        << <<"ID", "entity_id">>, <<"NAME", "name">>, <<"STATE", "state">>,
           <<"DEPT", "department">>, <<"MUN", "municipality">>,
           <<"EXACT", "exact">>, <<"ORDER", "order">>, <<"FIELDS", "fields">>,
           <<"OFFSET", "offset">> >>

\* ------------------------------------------------- query and format builders
\* process_entity_single: (query, fmt) of one parameter set
build_entity_query_format_single(name, qs_params) ==
    << translate_keys(qs_params, KeyTranslations(name), <<"FLATTEN", "FORMAT">>),
       DictSet(SubDict(qs_params, <<"FLATTEN", "FIELDS", "FORMAT">>),
               "CSV_FIELDS", <<"ENDPOINT_CSV_FIELDS", name>>) >>

\* process_entity_bulk: (query, fmt) of one parameter set
build_entity_query_format_bulk(name, parsed_params) ==
    << translate_keys(parsed_params, KeyTranslations(name),
                      <<"FLATTEN", "FORMAT">>),
       SubDict(parsed_params, <<"FLATTEN", "FIELDS">>) >>

build_street_query_format(parsed_params) ==
    << translate_keys(parsed_params,
           << <<"ID", "street_id">>, <<"NAME", "road_name">>,
              <<"STATE", "state">>, <<"DEPT", "department">>,
              <<"EXACT", "exact">>, <<"FIELDS", "fields">>,
              <<"ROAD_TYPE", "road_type">>, <<"OFFSET", "offset">>,
              <<"ORDER", "order">> >>,
           <<"FLATTEN", "FORMAT">>),
       DictSet(SubDict(parsed_params, <<"FLATTEN", "FIELDS", "FORMAT">>),
               "CSV_FIELDS", "STREETS_CSV_FIELDS") >>

\* parsed_params after N.ADDRESS is popped and road_name, number are set
AddressParamsPopped(parsed_params) ==
    LET address == DictGet(parsed_params, "ADDRESS")
    IN  DictSet(DictSet(DictPop(parsed_params, "ADDRESS"),
                        "road_name", address[1]),
                "number", address[2])

build_address_query_format(parsed_params) ==
    LET popped == AddressParamsPopped(parsed_params)
        query == translate_keys(popped,
                     << <<"DEPT", "department">>, <<"STATE", "state">>,
                        <<"EXACT", "exact">>, <<"ROAD_TYPE", "road_type">>,
                        <<"OFFSET", "offset">>, <<"ORDER", "order">> >>,
                     <<"FLATTEN", "FORMAT", "FIELDS">>)
    IN  << DictSet(query, "fields",
                   DictGet(popped, "FIELDS") \o <<"GEOM", "START_R", "END_L">>),
           DictSet(SubDict(popped, <<"FLATTEN", "FIELDS", "FORMAT">>),
                   "CSV_FIELDS", "ADDRESSES_CSV_FIELDS") >>

build_place_query_format(parsed_params) ==
    << translate_keys(parsed_params, <<>>, <<"FLATTEN", "FORMAT">>),
       SubDict(parsed_params, <<"FLATTEN", "FIELDS", "FORMAT">>) >>

\* (query, fmt) of parameter set p of a request to endpoint `name`
QueryFormat(name, method, p) ==
    IF name = "ADDRESSES" THEN build_address_query_format(p)
    ELSE IF name = "PLACE" THEN build_place_query_format(p)
    ELSE IF name = "STREETS" THEN build_street_query_format(p)
    ELSE IF method = "GET" THEN build_entity_query_format_single(name, p)
    ELSE build_entity_query_format_bulk(name, p)

\* --------------------------------------------------- build_addresses_result
\* The hit after the full-name step of the loop body.
WithFullNameLastPart(street, fields, number) ==
    IF InList("FULL_NAME", fields)
    THEN DictSet(street, "FULL_NAME",
                 DictGet(street, "FULL_NAME") \o <<" ">> \o Str(number))
    ELSE street

WithFullName(street, fields, number) ==
    IF InList("FULL_NAME", fields)
    THEN LET parts == Split(DictGet(street, "FULL_NAME"), ",")
             first == parts[1] \o <<" ">> \o Str(number)
         IN  DictSet(street, "FULL_NAME", Join(<<first>> \o Tail(parts), ","))
    ELSE street

\* The hit after door numbers and geometry are popped and the queried number
\* is set.
WithDoorNumKeepRange(street, fields, number) ==
    IF InList("DOOR_NUM", fields)
    THEN DictSet(DictPop(street, "GEOM"), "DOOR_NUM", number)
    ELSE DictPop(street, "GEOM")

WithDoorNum(street, fields, number) ==
    LET popped == DictPop(DictPop(street, "DOOR_NUM"), "GEOM")
    IN  IF InList("DOOR_NUM", fields)
        THEN DictSet(popped, "DOOR_NUM", number)
        ELSE popped

WantsLocationAlways(fields, extents) ==
    InList("LOCATION_LAT", fields) \/ InList("LOCATION_LON", fields)

\* The condition under which the location of the door number is looked up.
WantsLocation(fields, extents) ==
    /\ InList("LOCATION_LAT", fields) \/ InList("LOCATION_LON", fields)
    /\ extents[1] # NoneNum
    /\ extents[2] # NoneNum

\* What data.street_number_location returns: the point of `geom` at the
\* position of `number` between `start` and `end`.
street_number_location(geom, number, start, end) ==
    << <<"LAT", <<geom, number, start, end>> >>,
       <<"LON", <<geom, number, start, end>> >> >>

\* The hit up to the location lookup (what an exception in the lookup leaves).
StreetBeforeLocation(street, query) ==
    WithDoorNum(WithFullName(street, DictGet(query, "fields"),
                             DictGet(query, "number")),
                DictGet(query, "fields"), DictGet(query, "number"))

\* The hit after one pass of the loop body, `looked_up` telling whether the
\* location was looked up.
StreetEnriched(street, query, source, looked_up) ==
    LET number == DictGet(query, "number")
        extents == street_extents(DictGet(street, "DOOR_NUM"), number)
        before == StreetBeforeLocation(street, query)
        located ==
            IF looked_up
            THEN DictSet(before, "LOCATION",
                         street_number_location(DictGet(street, "GEOM"),
                                                number, extents[1], extents[2]))
            ELSE before
    IN  DictSet(located, "SOURCE", source)

\* ------------------------------------------------------- build_place_result
empty_entity == << <<"ID", None>>, <<"NAME", None>> >>

\* `not x` of a dict or None
Falsy(x) == x = NoneDict \/ x = <<>>

build_place_result_NoStub(query, dept, muni) ==
    LET no_dept == Falsy(dept)
        state == IF no_dept THEN empty_entity ELSE DictGet(dept, "STATE")
        dept2 == IF no_dept THEN empty_entity ELSE DictPop(dept, "STATE")
        muni2 == IF no_dept THEN empty_entity ELSE muni
        source == IF no_dept THEN None ELSE get_index_source("DEPARTMENTS")
    IN  << <<"STATE", state>>, <<"DEPT", dept2>>, <<"MUN", muni2>>,
           <<"lat", DictGet(query, "lat")>>, <<"lon", DictGet(query, "lon")>>,
           <<"SOURCE", source>> >>

build_place_result_KeepMuni(query, dept, muni) ==
    LET no_dept == Falsy(dept)
        state == IF no_dept THEN empty_entity ELSE DictGet(dept, "STATE")
        dept2 == IF no_dept THEN empty_entity ELSE DictPop(dept, "STATE")
        muni2 == IF Falsy(muni) THEN empty_entity ELSE muni
        source == IF no_dept THEN None ELSE get_index_source("DEPARTMENTS")
    IN  << <<"STATE", state>>, <<"DEPT", dept2>>, <<"MUN", muni2>>,
           <<"lat", DictGet(query, "lat")>>, <<"lon", DictGet(query, "lon")>>,
           <<"SOURCE", source>> >>

build_place_result(query, dept, muni) ==
    LET no_dept == Falsy(dept)
        state == IF no_dept THEN empty_entity ELSE DictGet(dept, "STATE")
        dept2 == IF no_dept THEN empty_entity ELSE DictPop(dept, "STATE")
        muni2 == IF no_dept THEN empty_entity
                 ELSE IF Falsy(muni) THEN empty_entity ELSE muni
        source == IF no_dept THEN None ELSE get_index_source("DEPARTMENTS")
    IN  << <<"STATE", state>>, <<"DEPT", dept2>>, <<"MUN", muni2>>,
           <<"lat", DictGet(query, "lat")>>, <<"lon", DictGet(query, "lon")>>,
           <<"SOURCE", source>> >>

\* ---------------------------------------------------- process_place_queries
\* bool(result) of a result object: whether it has hits.
ResultTruthy(result) == Len(result.hits) > 0

\* result.hits[0] if result else None
FirstHitOrNone(result) ==
    IF ResultTruthy(result) THEN result.hits[1] ELSE NoneDict

DeptQuery(query) ==
    << <<"lat", DictGet(query, "lat")>>, <<"lon", DictGet(query, "lon")>>,
       <<"fields", <<"ID", "NAME", "STATE">> >> >>

MuniQuery(query) ==
    << <<"lat", DictGet(query, "lat")>>, <<"lon", DictGet(query, "lon")>>,
       <<"fields", <<"ID", "NAME">> >> >>

Min(a, b) == IF a < b THEN a ELSE b

PlacesOfFirstDept(qs, dept_results, munis) ==
    [i \in 1..Min(Len(qs), Min(Len(dept_results), Len(munis))) |->
        build_place_result(qs[i], FirstHitOrNone(dept_results[1]),
                           FirstHitOrNone(munis[i]))]

\* The places built by the loop over zip(queries, dept_results, muni_results).
PlacesOf(qs, dept_results, munis) ==
    [i \in 1..Min(Len(qs), Min(Len(dept_results), Len(munis))) |->
        build_place_result(qs[i], FirstHitOrNone(dept_results[i]),
                           FirstHitOrNone(munis[i]))]

\* ------------ get_elasticsearch, get_postgres_db_connection_pool by threads
Threads == 1..NThreads

Resources == {"elasticsearch", "postgres_pool"}

\* pc, attr, local: per thread, where it is in the getter, the attribute the
\* getter is for and the object it constructed (0 for none).  attrs: the
\* object each attribute of current_app holds (0 when the attribute is not
\* set).  made: the objects constructed so far.  rets: the (attribute,
\* object) pairs the calls returned, in order.  calls: the calls begun.
LazyInit ==
    [pc |-> [t \in Threads |-> "idle"],
     attr |-> [t \in Threads |-> "elasticsearch"],
     local |-> [t \in Threads |-> 0],
     attrs |-> [r \in Resources |-> 0],
     made |-> [r \in Resources |-> 0],
     rets |-> <<>>,
     calls |-> 0]

\* Thread t calls get_elasticsearch or get_postgres_db_connection_pool.
LazyCall(t) ==
    /\ lazy.pc[t] = "idle"
    /\ lazy.calls < MaxCalls
    /\ \E r \in Resources :
           lazy' = [lazy EXCEPT !.pc[t] = "hasattr", !.attr[t] = r,
                                !.local[t] = 0, !.calls = @ + 1]
    /\ UNCHANGED <<reqvars, fn_in, fn_out>>

\* if not hasattr(current_app, ...)
LazyHasattr(t) ==
    /\ lazy.pc[t] = "hasattr"
    /\ lazy' = [lazy EXCEPT !.pc[t] =
                    IF lazy.attrs[lazy.attr[t]] # 0 THEN "return"
                    ELSE "construct"]
    /\ UNCHANGED <<reqvars, fn_in, fn_out>>

\* data.elasticsearch_connection(...) or data.postgres_db_connection_pool(...)
\* returns a new object.
LazyConstruct(t) ==
    /\ lazy.pc[t] = "construct"
    /\ lazy' = [lazy EXCEPT !.pc[t] = "setattr",
                            !.made[lazy.attr[t]] = @ + 1,
                            !.local[t] = lazy.made[lazy.attr[t]] + 1]
    /\ UNCHANGED <<reqvars, fn_in, fn_out>>

\* The constructor raises DataConnectionException: the call is over.
LazyConstructRaises(t) ==
    /\ lazy.pc[t] = "construct"
    /\ lazy' = [lazy EXCEPT !.pc[t] = "idle"]
    /\ UNCHANGED <<reqvars, fn_in, fn_out>>

\* current_app.<attribute> = <the object constructed>
LazySetattr(t) ==
    /\ lazy.pc[t] = "setattr"
    /\ lazy' = [lazy EXCEPT !.pc[t] = "return",
                            !.attrs[lazy.attr[t]] = lazy.local[t]]
    /\ UNCHANGED <<reqvars, fn_in, fn_out>>

\* return current_app.<attribute>
LazyReturn(t) ==
    /\ lazy.pc[t] = "return"
    /\ lazy' = [lazy EXCEPT !.pc[t] = "idle",
                            !.rets = Append(@, <<lazy.attr[t],
                                                 lazy.attrs[lazy.attr[t]]>>)]
    /\ UNCHANGED <<reqvars, fn_in, fn_out>>

\* ------------------------------------------------------------ the handlers
InitHandlers ==
    /\ lazy = LazyInit
    /\ pc = "idle"
    /\ request = [endpoint |-> "STATES", method |-> "GET"]
    /\ app = {}
    /\ pool_out = 0
    /\ baseline = 0
    /\ body_params = <<>>
    /\ queries = <<>>
    /\ formats = <<>>
    /\ returned = <<>>
    /\ results = <<>>
    /\ muni_results = <<>>
    /\ qi = 0
    /\ hi = 0
    /\ connection = 0
    /\ log = <<>>
    /\ response = [kind |-> "none"]

Init ==
    /\ InitHandlers
    /\ fn_in = <<>>
    /\ fn_out = <<>>

IsBulk == request.method # "GET"

\* A request arrives at process_entity, process_street, process_address or
\* process_place.
ReceiveRequest ==
    /\ pc \in {"idle", "done"}
    /\ \E e \in Endpoints, m \in {"GET", "POST"} :
           request' = [endpoint |-> e, method |-> m]
    /\ baseline' = pool_out
    /\ body_params' = <<>>
    /\ queries' = <<>>
    /\ formats' = <<>>
    /\ returned' = <<>>
    /\ results' = <<>>
    /\ muni_results' = <<>>
    /\ qi' = 0
    /\ hi' = 0
    /\ log' = <<>>
    /\ response' = [kind |-> "none"]
    /\ pc' = "parse"
    /\ UNCHANGED <<app, pool_out, connection, fn_in, fn_out, lazy>>

PcAfterParseErrorFallThrough == "get_es"

\* The except clause of the parse returns the response.
PcAfterParseError == "done"

\* The parser raises ParameterParsingException.
ParseError ==
    /\ pc = "parse"
    /\ response' = [kind |-> IF IsBulk THEN "param_error_bulk"
                             ELSE "param_error_single"]
    /\ pc' = PcAfterParseError
    /\ UNCHANGED <<request, app, pool_out, baseline, body_params, queries,
                   formats, returned, results, muni_results, qi, hi,
                   connection, log, fn_in, fn_out, lazy>>

\* The parser returns the parameter sets; the queries and the format specs
\* are built from them.
ParseOk ==
    /\ pc = "parse"
    /\ \E ps \in ParamLists(request.endpoint, request.method) :
           /\ body_params' = ps
           /\ queries' = [i \in 1..Len(ps) |->
                  QueryFormat(request.endpoint, request.method, ps[i])[1]]
           /\ formats' = [i \in 1..Len(ps) |->
                  QueryFormat(request.endpoint, request.method, ps[i])[2]]
    /\ pc' = "get_es"
    /\ UNCHANGED <<request, app, pool_out, baseline, returned, results,
                   muni_results, qi, hi, connection, log, response,
                   fn_in, fn_out, lazy>>

InternalErrorRetry ==
    /\ pc' = "get_es"
    /\ UNCHANGED response

\* The except clause of process_*: DataConnectionException ends the request.
InternalError ==
    /\ response' = [kind |-> "internal_error"]
    /\ pc' = "done"

Call(name) == [call |-> name, outcome |-> "ok"]

Raised(c) == [c EXCEPT !.outcome = "raise"]

get_elasticsearch ==
    /\ pc = "get_es"
    /\ \/ /\ "elasticsearch" \in app
          /\ pc' = "search"
          /\ UNCHANGED <<app, log, response>>
       \/ /\ "elasticsearch" \notin app
          /\ app' = app \cup {"elasticsearch"}
          /\ log' = Append(log, Call("elasticsearch_connection"))
          /\ pc' = "search"
          /\ UNCHANGED response
       \/ /\ "elasticsearch" \notin app
          /\ log' = Append(log, Raised(Call("elasticsearch_connection")))
          /\ InternalError
          /\ UNCHANGED app
    /\ UNCHANGED <<request, pool_out, baseline, body_params, queries, formats,
                   returned, results, muni_results, qi, hi, connection,
                   fn_in, fn_out, lazy>>

SearchCall(name, index, qs) ==
    [call |-> name, index |-> index, queries |-> qs, outcome |-> "ok"]

\* for match in result.hits: match[N.SOURCE] = source
Tagged(result, source) ==
    [result EXCEPT !.hits = [j \in 1..Len(result.hits) |->
                                DictSet(result.hits[j], "SOURCE", source)]]

QueryResultOf(result) ==
    from_entity_list(result.hits, result.total, result.offset)

\* formatter.create_ok_response / create_ok_response_bulk
OkResponse(name, query_results, fmts) ==
    IF IsBulk
    THEN [kind |-> "ok_bulk", name |-> name, query_results |-> query_results,
          formats |-> fmts]
    ELSE [kind |-> "ok", name |-> name, query_result |-> query_results[1],
          fmt |-> fmts[1]]

\* process_entity_single/bulk and process_street_single/bulk from the search on
SearchEntities ==
    /\ pc = "search"
    /\ request.endpoint \in EntityEndpoints \cup {"STREETS"}
    /\ LET name == request.endpoint
           c == SearchCall(IF name = "STREETS" THEN "search_streets"
                           ELSE "search_entities", name, queries)
       IN  \/ /\ log' = Append(log, Raised(c))
              /\ InternalError
              /\ UNCHANGED <<returned, results>>
           \/ \E rs \in ResultLists(EntityHits, Len(queries)) :
                 /\ log' = Append(log, c)
                 /\ returned' = rs
                 /\ results' = [i \in 1..Len(rs) |->
                                   Tagged(rs[i], get_index_source(name))]
                 /\ response' = OkResponse(name,
                        [i \in 1..Len(rs) |-> QueryResultOf(results'[i])],
                        formats)
                 /\ pc' = "done"
    /\ UNCHANGED <<request, app, pool_out, baseline, body_params, queries,
                   formats, muni_results, qi, hi, connection, fn_in, fn_out, lazy>>

\* process_address_single/bulk: the search
SearchAddresses ==
    /\ pc = "search"
    /\ request.endpoint = "ADDRESSES"
    /\ LET c == SearchCall("search_streets", "STREETS", queries)
       IN  \/ /\ log' = Append(log, Raised(c))
              /\ InternalError
              /\ UNCHANGED <<returned, results, qi, hi>>
           \/ \E rs \in ResultLists(StreetHits, Len(queries)) :
                 /\ log' = Append(log, c)
                 /\ returned' = rs
                 /\ results' = rs
                 /\ qi' = 1
                 /\ hi' = 1
                 /\ pc' = "get_pool"
                 /\ UNCHANGED response
    /\ UNCHANGED <<request, app, pool_out, baseline, body_params, queries,
                   formats, muni_results, connection, fn_in, fn_out, lazy>>

\* build_addresses_result(results[qi], queries[qi], source): the pool
get_postgres_db_connection_pool ==
    /\ pc = "get_pool"
    /\ \/ /\ "postgres_pool" \in app
          /\ pc' = "getconn"
          /\ UNCHANGED <<app, log, response>>
       \/ /\ "postgres_pool" \notin app
          /\ app' = app \cup {"postgres_pool"}
          /\ log' = Append(log, Call("postgres_db_connection_pool"))
          /\ pc' = "getconn"
          /\ UNCHANGED response
       \/ /\ "postgres_pool" \notin app
          /\ log' = Append(log, Raised(Call("postgres_db_connection_pool")))
          /\ InternalError
          /\ UNCHANGED app
    /\ UNCHANGED <<request, pool_out, baseline, body_params, queries, formats,
                   returned, results, muni_results, qi, hi, connection,
                   fn_in, fn_out, lazy>>

\* The calls of pool.getconn logged so far
GetconnCount(l) == Cardinality({i \in 1..Len(l) : l[i].call = "getconn"})

\* get_postgres_db_connection: entering the context
getconn ==
    /\ pc = "getconn"
    /\ pool_out' = pool_out + 1
    /\ connection' = GetconnCount(log) + 1
    /\ log' = Append(log, Call("getconn"))
    /\ pc' = "hits"
    /\ UNCHANGED <<request, app, baseline, body_params, queries, formats,
                   returned, results, muni_results, qi, hi, response,
                   fn_in, fn_out, lazy>>

PoolAfterExitNoFinally(out, raised) == IF raised THEN out ELSE out - 1

\* get_postgres_db_connection: leaving the context, by the end of the block
\* or by an exception raised in it: the finally clause calls pool.putconn.
PoolAfterExit(out, raised) == out - 1

PcAfterHitReacquire == "getconn"

\* The loop over result.hits runs inside the with block.
PcAfterHit == "hits"

\* The call data.street_number_location(connection, geom, number, start, end);
\* `at` records the result and the hit the loops are at.
LocationCallSwapped(conn, geom, number, extents, at) ==
    [call |-> "street_number_location", connection |-> conn, geom |-> geom,
     number |-> number, start |-> extents[2], end |-> extents[1],
     at |-> at, outcome |-> "ok"]

LocationCall(conn, geom, number, extents, at) ==
    [call |-> "street_number_location", connection |-> conn, geom |-> geom,
     number |-> number, start |-> extents[1], end |-> extents[2],
     at |-> at, outcome |-> "ok"]

ZipQueryFirst(qs, i) == qs[1]

\* zip(results, queries): the query paired with result i
ZipQuery(qs, i) == qs[i]

\* build_addresses_result: one pass of the loop over result.hits
EnrichHit ==
    /\ pc = "hits"
    /\ hi <= Len(results[qi].hits)
    /\ LET street == results[qi].hits[hi]
           query == ZipQuery(queries, qi)
           number == DictGet(query, "number")
           extents == street_extents(DictGet(street, "DOOR_NUM"), number)
           wanted == WantsLocation(DictGet(query, "fields"), extents)
           c == LocationCall(connection, DictGet(street, "GEOM"), number,
                             extents, <<qi, hi>>)
           source == get_index_source("STREETS")
       IN  \/ /\ ~wanted
              /\ results' = [results EXCEPT ![qi].hits[hi] =
                                StreetEnriched(street, query, source, FALSE)]
              /\ hi' = hi + 1
              /\ pc' = PcAfterHit
              /\ UNCHANGED <<log, pool_out, connection, response>>
           \/ /\ wanted
              /\ results' = [results EXCEPT ![qi].hits[hi] =
                                StreetEnriched(street, query, source, TRUE)]
              /\ log' = Append(log, c)
              /\ hi' = hi + 1
              /\ pc' = PcAfterHit
              /\ UNCHANGED <<pool_out, connection, response>>
           \/ /\ wanted
              /\ results' = [results EXCEPT ![qi].hits[hi] =
                                StreetBeforeLocation(street, query)]
              /\ log' = log \o <<Raised(c), Call("putconn")>>
              /\ pool_out' = PoolAfterExit(pool_out, TRUE)
              /\ connection' = 0
              /\ InternalError
              /\ UNCHANGED hi
    /\ UNCHANGED <<request, app, baseline, body_params, queries, formats,
                   returned, muni_results, qi, fn_in, fn_out, lazy>>

\* build_addresses_result: the loop is over and the context is left; the
\* caller goes on to the next result or builds the response.
putconn ==
    /\ pc = "hits"
    /\ hi > Len(results[qi].hits)
    /\ pool_out' = PoolAfterExit(pool_out, FALSE)
    /\ connection' = 0
    /\ log' = Append(log, Call("putconn"))
    /\ \/ /\ qi < Len(results)
          /\ qi' = qi + 1
          /\ hi' = 1
          /\ pc' = "get_pool"
          /\ UNCHANGED response
       \/ /\ qi >= Len(results)
          /\ response' = OkResponse("ADDRESSES",
                 [i \in 1..Len(results) |-> QueryResultOf(results[i])],
                 formats)
          /\ pc' = "done"
          /\ UNCHANGED <<qi, hi>>
    /\ UNCHANGED <<request, app, baseline, body_params, queries, formats,
                   returned, results, muni_results, fn_in, fn_out, lazy>>

\* process_place_queries: the search of the department layer
SearchDepartments ==
    /\ pc = "search"
    /\ request.endpoint = "PLACE"
    /\ LET c == SearchCall("search_places", "DEPARTMENTS",
                           [i \in 1..Len(queries) |-> DeptQuery(queries[i])])
       IN  \/ /\ log' = Append(log, Raised(c))
              /\ InternalError
              /\ UNCHANGED <<returned, results>>
           \/ \E rs \in PlaceResultLists(DepartmentHits, Len(queries)) :
                 /\ log' = Append(log, c)
                 /\ returned' = rs
                 /\ results' = rs
                 /\ pc' = "search_muni"
                 /\ UNCHANGED response
    /\ UNCHANGED <<request, app, pool_out, baseline, body_params, queries,
                   formats, muni_results, qi, hi, connection, fn_in, fn_out, lazy>>

\* The department result after build_place_result popped the state of its
\* first hit.
DeptPopped(result) ==
    IF ResultTruthy(result) /\ ~Falsy(result.hits[1])
    THEN [result EXCEPT !.hits[1] = DictPop(@, "STATE")]
    ELSE result

\* process_place_queries from the search of the municipality layer on, and
\* the response of process_place_single/bulk
SearchMunicipalities ==
    /\ pc = "search_muni"
    /\ LET c == SearchCall("search_places", "MUNICIPALITIES",
                           [i \in 1..Len(queries) |-> MuniQuery(queries[i])])
       IN  \/ /\ log' = Append(log, Raised(c))
              /\ InternalError
              /\ UNCHANGED <<results, muni_results>>
           \/ \E ms \in PlaceResultLists(MunicipalityHits, Len(queries)) :
                 LET places == PlacesOf(queries, results, ms)
                 IN  /\ log' = Append(log, c)
                     /\ muni_results' = ms
                     /\ results' = [i \in 1..Len(results) |->
                            IF i <= Len(places) THEN DeptPopped(results[i])
                            ELSE results[i]]
                     /\ response' = OkResponse("PLACE",
                            [i \in 1..Len(places) |->
                                from_single_entity(places[i])],
                            formats)
                     /\ pc' = "done"
    /\ UNCHANGED <<request, app, pool_out, baseline, body_params, queries,
                   formats, returned, qi, hi, connection, fn_in, fn_out, lazy>>

Next ==
    \/ ReceiveRequest
    \/ ParseError
    \/ ParseOk
    \/ get_elasticsearch
    \/ SearchEntities
    \/ SearchAddresses
    \/ get_postgres_db_connection_pool
    \/ getconn
    \/ EnrichHit
    \/ putconn
    \/ SearchDepartments
    \/ SearchMunicipalities

Spec == Init /\ [][Next]_vars

\* ------------------------------------------- street_extents on drawn inputs
InitExtents ==
    /\ InitHandlers
    /\ \E sl, sr, el, er, n \in 0..MaxDoor :
           fn_in = [door_nums |-> DoorNums(sl, sr, el, er), number |-> n]
    /\ fn_out = <<>>

ApplyStreetExtents ==
    /\ fn_out = <<>>
    /\ fn_out' = street_extents(fn_in.door_nums, fn_in.number)
    /\ UNCHANGED <<reqvars, fn_in, lazy>>

NextExtents == ApplyStreetExtents

SpecExtents == InitExtents /\ [][NextExtents]_vars

\* ------------------------------------------- translate_keys on drawn inputs
KeyNames == <<"a", "b", "c", "d", "e">>

\* Dicts of at most n pairs, with distinct keys among K and values among V.
DictsOver(K, V, n) ==
    { s \in UNION { [1..k -> K \X V] : k \in 0..n } :
        \A i, j \in 1..Len(s) : i # j => s[i][1] # s[j][1] }

InitTranslate ==
    /\ InitHandlers
    /\ \E d \in DictsOver({KeyNames[i] : i \in 1..MaxKeys}, {1, 2}, MaxKeys),
          translations \in DictsOver({KeyNames[1], KeyNames[2]},
                                     {KeyNames[2], KeyNames[3], "x"}, 2),
          ignore \in {<<>>, <<KeyNames[1]>>, <<KeyNames[3]>>,
                      <<KeyNames[3], KeyNames[1]>>} :
           fn_in = [d |-> d, translations |-> translations, ignore |-> ignore]
    /\ fn_out = <<>>

\* fn_out holds the returned dict as its one element.
ApplyTranslateKeys ==
    /\ fn_out = <<>>
    /\ fn_out' = <<translate_keys(fn_in.d, fn_in.translations, fn_in.ignore)>>
    /\ UNCHANGED <<reqvars, fn_in, lazy>>

NextTranslate == ApplyTranslateKeys

SpecTranslate == InitTranslate /\ [][NextTranslate]_vars

\* ------------------------------------------ the getters under interleaving
NextThreads ==
    \E t \in Threads :
        \/ LazyCall(t)
        \/ LazyHasattr(t)
        \/ LazyConstruct(t)
        \/ LazyConstructRaises(t)
        \/ LazySetattr(t)
        \/ LazyReturn(t)

SpecThreads == Init /\ [][NextThreads]_vars

\* ============================================================== properties
\* What the formatter was handed, as lists.
RespondedOk == pc = "done" /\ response.kind \in {"ok", "ok_bulk"}

HandedQueryResults ==
    IF response.kind = "ok_bulk" THEN response.query_results
    ELSE <<response.query_result>>

HandedFormats ==
    IF response.kind = "ok_bulk" THEN response.formats ELSE <<response.fmt>>

LogIndices(name) == {k \in 1..Len(log) : log[k].call = name}

LocationCalls == LogIndices("street_number_location")

RaisedCalls == {k \in 1..Len(log) : log[k].outcome = "raise"}

SearchCalls ==
    {k \in 1..Len(log) :
        log[k].call \in {"search_entities", "search_streets", "search_places"}}

\* ---------------------------------------------------------------------- C1
\* C1: street_extents returns the first of (start-right, end-left),
\* (start-left, end-right), (start-right, end-right), (start-left, end-left),
\* in that order, with start <= N <= end, both bounds inclusive, and
\* (None, None) when no pair contains N.
C1_FirstContainingPair ==
    fn_out # <<>> =>
        LET d == fn_in.door_nums
            n == fn_in.number
            sl == d[1][2][1][2]
            sr == d[1][2][2][2]
            el == d[2][2][1][2]
            er == d[2][2][2][2]
        IN  fn_out =
                IF sr <= n /\ n <= el THEN <<sr, el>>
                ELSE IF sl <= n /\ n <= er THEN <<sl, er>>
                ELSE IF sr <= n /\ n <= er THEN <<sr, er>>
                ELSE IF sl <= n /\ n <= el THEN <<sl, el>>
                ELSE <<NoneNum, NoneNum>>

\* The third pair is returned on a bound (N = start-right) after the first
\* two pairs failed.
C1_Witness ==
    /\ fn_out # <<>>
    /\ LET d == fn_in.door_nums
           n == fn_in.number
       IN  /\ fn_out = <<d[1][2][2][2], d[2][2][2][2]>>
           /\ n = d[1][2][2][2]
           /\ n > d[2][2][1][2]
           /\ n < d[1][2][1][2]

\* ---------------------------------------------------------------------- C2
\* C2: when a request has finished, with a response of any kind, every
\* connection taken from the pool has been returned: the number of
\* checked-out connections is what it was before the request, and while the
\* request runs the only connection out is the one build_addresses_result
\* holds.
C2_ConnectionReturned ==
    /\ pc = "done" => pool_out = baseline /\ connection = 0
    /\ pool_out = baseline + (IF connection # 0 THEN 1 ELSE 0)

\* An address request ended by an exception of the location lookup on the
\* second hit of a result, after the first hit was enriched.
C2_Witness ==
    /\ pc = "done"
    /\ response.kind = "internal_error"
    /\ hi = 2
    /\ \E k \in LocationCalls : log[k].outcome = "raise"
    /\ log[Len(log)].call = "putconn"

\* ---------------------------------------------------------------------- C3
\* C3 as stated: one request acquires a connection from the pool at most
\* once.
C3_AtMostOneAcquirePerRequest == GetconnCount(log) <= 1

\* C3 amended: a connection is acquired once per query of the request (once
\* per call of build_addresses_result), never once per hit; it is returned
\* before the next one is acquired; and every location lookup of a query's
\* hits uses the connection acquired for that query.
C3_OneAcquirePerQuery ==
    /\ GetconnCount(log) <= Len(queries)
    /\ pc = "hits" => GetconnCount(log) = qi /\ connection = qi
    /\ pc \in {"get_pool", "getconn"} => GetconnCount(log) = qi - 1
    /\ RespondedOk /\ request.endpoint = "ADDRESSES" =>
           GetconnCount(log) = Len(queries)
    /\ pool_out - baseline <= 1
    /\ \A k \in LocationCalls : log[k].connection = log[k].at[1]

\* A bulk address request whose second result has two hits, both looked up
\* with the second connection of the request.
C3_Witness ==
    /\ RespondedOk
    /\ request.endpoint = "ADDRESSES"
    /\ GetconnCount(log) = 2
    /\ Cardinality({k \in LocationCalls : log[k].connection = 2}) = 2

\* ---------------------------------------------------------------------- C4
\* The door number and the requested fields of parameter set p of an address
\* request.
NumberOf(p) == DictGet(p, "ADDRESS")[2]

FieldsOf(p) == DictGet(p, "FIELDS")

\* C4: a bulk request (entities, streets or addresses) with N parsed
\* parameter sets passes N queries to the search backend in input order and
\* hands over N QueryResults and N format specs; QueryResult i is a list
\* result with the hits, total and offset of backend result i, format i
\* holds the flatten and fields options of parameter set i, and the hits of
\* address result i carry the door number of query i.
C4_BulkOrderAndCardinality ==
    pc = "done" /\ response.kind = "ok_bulk" /\ request.endpoint # "PLACE" =>
        LET n == Len(body_params)
            qrs == response.query_results
            fmts == response.formats
        IN  /\ Len(qrs) = n
            /\ Len(fmts) = n
            /\ Cardinality(SearchCalls) = 1
            /\ \A k \in SearchCalls :
                   /\ Len(log[k].queries) = n
                   /\ \A i \in 1..n :
                          log[k].queries[i] =
                              QueryFormat(request.endpoint, "POST",
                                          body_params[i])[1]
            /\ \A i \in 1..n :
                   /\ qrs[i].iterable
                   /\ qrs[i].total = returned[i].total
                   /\ qrs[i].offset = returned[i].offset
                   /\ Len(qrs[i].entities) = Len(returned[i].hits)
                   /\ \A j \in 1..Len(qrs[i].entities) :
                          /\ DictGet(qrs[i].entities[j], "ID") =
                                 DictGet(returned[i].hits[j], "ID")
                          /\ request.endpoint = "ADDRESSES"
                             /\ DictHas(qrs[i].entities[j], "DOOR_NUM") =>
                                 DictGet(qrs[i].entities[j], "DOOR_NUM") =
                                     NumberOf(body_params[i])
                          /\ request.endpoint = "ADDRESSES"
                             /\ DictHas(qrs[i].entities[j], "LOCATION") =>
                                 DictGet(DictGet(qrs[i].entities[j],
                                                 "LOCATION"), "LAT")[2] =
                                     NumberOf(body_params[i])
                   /\ \A key \in {"FLATTEN", "FIELDS"} :
                          /\ DictHas(fmts[i], key) = DictHas(body_params[i], key)
                          /\ DictHas(fmts[i], key) =>
                                 DictGet(fmts[i], key) =
                                     DictGet(body_params[i], key)

\* A bulk address request of two queries with different door numbers and
\* different results, each hit carrying the number of its own query.
C4_Witness ==
    /\ pc = "done"
    /\ response.kind = "ok_bulk"
    /\ request.endpoint = "ADDRESSES"
    /\ Len(body_params) = 2
    /\ NumberOf(body_params[1]) # NumberOf(body_params[2])
    /\ returned[1] # returned[2]
    /\ \A i \in 1..2 :
           /\ Len(response.query_results[i].entities) > 0
           /\ DictHas(response.query_results[i].entities[1], "DOOR_NUM")

\* ---------------------------------------------------------------------- C5
\* The places handed over by a place request.
HandedPlaces ==
    [i \in 1..Len(HandedQueryResults) |-> HandedQueryResults[i].entities[1]]

IsPlaceOk == RespondedOk /\ request.endpoint = "PLACE"

HasMatch(result) == result.hits # <<>>

\* C5: one place per input point, in input order: place i carries the lat
\* and lon of query i, its department is the match of department result i
\* (the stub when there is none) and its municipality is the match of
\* municipality result i (the stub when that result or department result i
\* has no match).
C5_OnePlacePerPoint ==
    IsPlaceOk =>
        /\ Len(HandedPlaces) = Len(body_params)
        /\ \A i \in 1..Len(HandedPlaces) :
               LET place == HandedPlaces[i]
               IN  /\ DictGet(place, "lat") = DictGet(body_params[i], "lat")
                   /\ DictGet(place, "lon") = DictGet(body_params[i], "lon")
                   /\ DictGet(DictGet(place, "DEPT"), "ID") =
                          IF HasMatch(returned[i])
                          THEN DictGet(returned[i].hits[1], "ID") ELSE None
                   /\ DictGet(DictGet(place, "MUN"), "ID") =
                          IF HasMatch(returned[i]) /\ HasMatch(muni_results[i])
                          THEN DictGet(muni_results[i].hits[1], "ID")
                          ELSE None

\* Two points with different coordinates, in different departments, the
\* second one alone in a municipality.
C5_Witness ==
    /\ IsPlaceOk
    /\ Len(HandedPlaces) = 2
    /\ DictGet(body_params[1], "lat") # DictGet(body_params[2], "lat")
    /\ HasMatch(returned[1])
    /\ HasMatch(returned[2])
    /\ returned[1] # returned[2]
    /\ ~HasMatch(muni_results[1])
    /\ HasMatch(muni_results[2])

\* ---------------------------------------------------------------------- C6
\* C6: a point with a department match and no municipality match gets a
\* department that is not null, the state embedded in the department match,
\* the municipality stub and the source of the department layer; the state
\* layer is never searched.
C6_DepartmentWithoutMunicipality ==
    IsPlaceOk =>
        /\ \A k \in SearchCalls :
               log[k].index \in {"DEPARTMENTS", "MUNICIPALITIES"}
        /\ \A i \in 1..Len(HandedPlaces) :
               HasMatch(returned[i]) /\ ~HasMatch(muni_results[i]) =>
                   LET place == HandedPlaces[i]
                   IN  /\ DictGet(DictGet(place, "DEPT"), "ID") # None
                       /\ DictGet(DictGet(place, "DEPT"), "NAME") # None
                       /\ DictGet(place, "STATE") =
                              DictGet(returned[i].hits[1], "STATE")
                       /\ DictGet(place, "MUN") =
                              << <<"ID", None>>, <<"NAME", None>> >>
                       /\ DictGet(place, "SOURCE") = "SOURCE_IGN"

C6_Witness ==
    /\ IsPlaceOk
    /\ \E i \in 1..Len(HandedPlaces) :
           /\ HasMatch(returned[i])
           /\ ~HasMatch(muni_results[i])
           /\ DictGet(DictGet(HandedPlaces[i], "STATE"), "ID") = "p2"

\* ---------------------------------------------------------------------- C7
\* C7: a point with no department match gets the all-null place (state,
\* department and municipality are the stub and source is null) even when
\* the municipality layer has a match, and source is null in no other place.
C7_NoDepartmentAllNull ==
    IsPlaceOk =>
        \A i \in 1..Len(HandedPlaces) :
            LET place == HandedPlaces[i]
                stub == << <<"ID", None>>, <<"NAME", None>> >>
            IN  /\ ~HasMatch(returned[i]) =>
                       /\ DictGet(place, "STATE") = stub
                       /\ DictGet(place, "DEPT") = stub
                       /\ DictGet(place, "MUN") = stub
                       /\ DictGet(place, "SOURCE") = None
                /\ DictGet(place, "SOURCE") = None => ~HasMatch(returned[i])

\* No department match and a municipality match.
C7_Witness ==
    /\ IsPlaceOk
    /\ \E i \in 1..Len(HandedPlaces) :
           /\ ~HasMatch(returned[i])
           /\ HasMatch(muni_results[i])
           /\ DictGet(HandedPlaces[i], "SOURCE") = None

\* ---------------------------------------------------------------------- C8
\* C8: once a call to the search backend or the relational store has raised
\* DataConnectionException, the request is over with the internal-error
\* response; an ok response is built only when no call raised; and the call
\* that raised is the last one made to either backend (only the return of
\* the connection to the pool follows it).
C8_ConnectionFailureAborts ==
    /\ RaisedCalls # {} => pc = "done" /\ response.kind = "internal_error"
    /\ response.kind \in {"ok", "ok_bulk"} => RaisedCalls = {}
    /\ Cardinality(RaisedCalls) <= 1
    /\ \A k \in RaisedCalls :
           \A m \in (k + 1)..Len(log) : log[m].call = "putconn"

\* A bulk address request whose first result was enriched in full before the
\* location lookup raised on the second one.
C8_Witness ==
    /\ pc = "done"
    /\ response.kind = "internal_error"
    /\ request.endpoint = "ADDRESSES"
    /\ qi = 2
    /\ \E k \in LocationCalls : log[k].outcome = "ok" /\ log[k].at[1] = 1
    /\ \E k \in LocationCalls : log[k].outcome = "raise" /\ log[k].at[1] = 2

\* ---------------------------------------------------------------------- C9
\* C9: a parameter-error response (the single form for a GET, the bulk form
\* for a POST) ends the request at once: no call was made to the search
\* backend or the relational store, no handle or pool was constructed, no
\* connection was acquired and no query was built.
C9_ParseErrorShortCircuits ==
    response.kind \in {"param_error_single", "param_error_bulk"} =>
        /\ pc = "done"
        /\ log = <<>>
        /\ pool_out = baseline
        /\ connection = 0
        /\ queries = <<>>
        /\ response.kind = "param_error_single" <=> request.method = "GET"

\* A bulk address request refused by the parser before any handle exists.
C9_Witness ==
    /\ pc = "done"
    /\ response.kind = "param_error_bulk"
    /\ request.endpoint = "ADDRESSES"
    /\ app = {}

\* --------------------------------------------------------------------- C10
\* Whether the queried number n lies in one of the four intervals of the
\* door numbers d.
InSomeInterval(d, n) ==
    LET sl == d[1][2][1][2]
        sr == d[1][2][2][2]
        el == d[2][2][1][2]
        er == d[2][2][2][2]
    IN  \/ sr <= n /\ n <= el
        \/ sl <= n /\ n <= er
        \/ sr <= n /\ n <= er
        \/ sl <= n /\ n <= el

LocationRequested(p) ==
    InList("LOCATION_LAT", FieldsOf(p)) \/ InList("LOCATION_LON", FieldsOf(p))

\* C10: the location lookup is made for a hit only if the requested fields
\* include latitude or longitude and the number lies in one of the hit's
\* intervals; a hit whose intervals do not contain the number is returned
\* all the same, without a location; and the only errors are those of the
\* backends.
C10_LookupOnlyWhenRequestedAndContained ==
    /\ \A k \in LocationCalls :
           LET p == body_params[log[k].at[1]]
               hit == returned[log[k].at[1]].hits[log[k].at[2]]
           IN  /\ LocationRequested(p)
               /\ InSomeInterval(DictGet(hit, "DOOR_NUM"), NumberOf(p))
               /\ log[k].start # NoneNum
               /\ log[k].end # NoneNum
    /\ RespondedOk /\ request.endpoint = "ADDRESSES" =>
           \A i \in 1..Len(returned) :
               /\ Len(HandedQueryResults[i].entities) = Len(returned[i].hits)
               /\ \A j \in 1..Len(returned[i].hits) :
                      LET p == body_params[i]
                          hit == returned[i].hits[j]
                          entity == HandedQueryResults[i].entities[j]
                      IN  /\ DictGet(entity, "ID") = DictGet(hit, "ID")
                          /\ DictHas(entity, "LOCATION") <=>
                                 /\ LocationRequested(p)
                                 /\ InSomeInterval(DictGet(hit, "DOOR_NUM"),
                                                   NumberOf(p))
    /\ response.kind = "internal_error" => RaisedCalls # {}

\* A hit returned without a location although the location was requested:
\* its intervals do not contain the number.
C10_Witness ==
    /\ RespondedOk
    /\ request.endpoint = "ADDRESSES"
    /\ \E i \in 1..Len(returned) : \E j \in 1..Len(returned[i].hits) :
           /\ LocationRequested(body_params[i])
           /\ ~InSomeInterval(DictGet(returned[i].hits[j], "DOOR_NUM"),
                              NumberOf(body_params[i]))
           /\ ~DictHas(HandedQueryResults[i].entities[j], "LOCATION")
           /\ LocationCalls = {}

\* --------------------------------------------------------------------- C11
\* Hit j of result i as the backend returned it, and as it was handed over.
ReturnedHit(i, j) == returned[i].hits[j]

HandedEntity(i, j) == HandedQueryResults[i].entities[j]

IsAddressOk == RespondedOk /\ request.endpoint = "ADDRESSES"

\* C11: no hit handed over by an address request holds the door-number range
\* (or the geometry) of the street: the door-number field is absent when it
\* was not requested and is the queried number when it was.
C11_DoorNumberRangeStripped ==
    IsAddressOk =>
        \A i \in 1..Len(returned) : \A j \in 1..Len(returned[i].hits) :
            LET p == body_params[i]
                entity == HandedEntity(i, j)
            IN  /\ DictHas(entity, "DOOR_NUM") <=>
                       InList("DOOR_NUM", FieldsOf(p))
                /\ DictHas(entity, "DOOR_NUM") =>
                       DictGet(entity, "DOOR_NUM") = NumberOf(p)
                /\ ~DictHas(entity, "GEOM")

\* One request with a hit whose door number was requested and is the queried
\* number, and a hit of a query that did not request it.
C11_Witness ==
    /\ IsAddressOk
    /\ Len(returned) = 2
    /\ Len(returned[1].hits) > 0
    /\ Len(returned[2].hits) > 0
    /\ DictHas(HandedEntity(1, 1), "DOOR_NUM")
    /\ DictGet(HandedEntity(1, 1), "DOOR_NUM") = 5
    /\ ~DictHas(HandedEntity(2, 1), "DOOR_NUM")
    /\ DictHas(ReturnedHit(2, 1), "DOOR_NUM")

\* --------------------------------------------------------------------- C12
\* The position of the first sep in s, Len(s) + 1 when there is none.
RECURSIVE FirstIndexOf(_, _, _)
FirstIndexOf(s, sep, k) ==
    IF k > Len(s) THEN k
    ELSE IF s[k] = sep THEN k ELSE FirstIndexOf(s, sep, k + 1)

\* name with a space and the digits of n put before its first comma, or at
\* its end when it has no comma.
NameWithNumber(name, n) ==
    LET k == FirstIndexOf(name, ",", 1)
    IN  SubSeq(name, 1, k - 1) \o <<" ">> \o Str(n) \o SubSeq(name, k, Len(name))

\* C12: when the full name is requested, a space and the queried number are
\* appended to its first comma-delimited segment and the later segments are
\* left as they are, in order; when it is not requested the name is left
\* unchanged.
C12_NumberAppendedToFirstSegment ==
    IsAddressOk =>
        \A i \in 1..Len(returned) : \A j \in 1..Len(returned[i].hits) :
            LET p == body_params[i]
                name == DictGet(ReturnedHit(i, j), "FULL_NAME")
            IN  DictGet(HandedEntity(i, j), "FULL_NAME") =
                    IF InList("FULL_NAME", FieldsOf(p))
                    THEN NameWithNumber(name, NumberOf(p))
                    ELSE name

\* "Ca,B,A" with 2 became "Ca 2,B,A", and "Ca" with 12 became "Ca 12".
C12_Witness ==
    /\ IsAddressOk
    /\ \E i \in 1..Len(returned) : \E j \in 1..Len(returned[i].hits) :
           /\ DictGet(ReturnedHit(i, j), "FULL_NAME") =
                  <<"C", "a", ",", "B", ",", "A">>
           /\ DictGet(HandedEntity(i, j), "FULL_NAME") =
                  <<"C", "a", " ", "2", ",", "B", ",", "A">>
    /\ \E i \in 1..Len(returned) : \E j \in 1..Len(returned[i].hits) :
           /\ DictGet(ReturnedHit(i, j), "FULL_NAME") = <<"C", "a">>
           /\ DictGet(HandedEntity(i, j), "FULL_NAME") =
                  <<"C", "a", " ", "1", "2">>

\* --------------------------------------------------------------------- C13
\* The key that key k of the input is emitted under.
EmittedKey(k) ==
    LET tr == fn_in.translations
    IN  IF \E i \in 1..Len(tr) : tr[i][1] = k
        THEN tr[CHOOSE i \in 1..Len(tr) : tr[i][1] = k][2]
        ELSE k

\* The positions of the input whose key is not ignored.
KeptPositions ==
    {j \in 1..Len(fn_in.d) :
        \A i \in 1..Len(fn_in.ignore) : fn_in.ignore[i] # fn_in.d[j][1]}

\* The kept positions of the input emitted under key nk.
SourcesOf(nk) == {j \in KeptPositions : EmittedKey(fn_in.d[j][1]) = nk}

MaxOf(S) == CHOOSE x \in S : \A y \in S : y <= x

\* C13: the keys of translate_keys(d, translations, ignore) are exactly the
\* translations.get(k, k) of the keys k of d that are not in ignore, and each
\* emitted key maps to the unchanged value d[k] of a key it came from (of the
\* last such key of d when translations sends several keys to it).
C13_PureProjection ==
    fn_out # <<>> =>
        LET out == fn_out[1]
        IN  /\ {out[i][1] : i \in 1..Len(out)} =
                   {EmittedKey(fn_in.d[j][1]) : j \in KeptPositions}
            /\ \A i, j \in 1..Len(out) : i # j => out[i][1] # out[j][1]
            /\ \A i \in 1..Len(out) :
                   /\ SourcesOf(out[i][1]) # {}
                   /\ out[i][2] = fn_in.d[MaxOf(SourcesOf(out[i][1]))][2]

\* A dict of three keys: one ignored, one renamed and one kept as it is.
C13_Witness ==
    /\ fn_out # <<>>
    /\ Len(fn_in.d) = 3
    /\ Cardinality(KeptPositions) = 2
    /\ Len(fn_out[1]) = 2
    /\ \E j \in KeptPositions : EmittedKey(fn_in.d[j][1]) # fn_in.d[j][1]
    /\ \E j \in KeptPositions : EmittedKey(fn_in.d[j][1]) = fn_in.d[j][1]
    /\ fn_in.d[1][2] # fn_in.d[3][2]

\* --------------------------------------------------------------------- C14
\* The source of each endpoint, as the fixed mapping states it.
SourceOfEndpoint ==
    [e \in Endpoints \ {"PLACE"} |->
        IF e \in {"STATES", "DEPARTMENTS", "MUNICIPALITIES"} THEN "SOURCE_IGN"
        ELSE IF e = "LOCALITIES" THEN "SOURCE_BAHRA"
        ELSE "SOURCE_INDEC"]

\* C14: after a successful entity, street or address request, single or
\* bulk, every hit of every QueryResult handed over carries the source of
\* the queried index: IGN for states, departments and municipalities, BAHRA
\* for localities, INDEC for streets and addresses.
C14_EveryHitTagged ==
    RespondedOk /\ request.endpoint # "PLACE" =>
        \A i \in 1..Len(HandedQueryResults) :
            /\ Len(HandedQueryResults[i].entities) = Len(returned[i].hits)
            /\ \A j \in 1..Len(HandedQueryResults[i].entities) :
                   /\ DictHas(HandedEntity(i, j), "SOURCE")
                   /\ DictGet(HandedEntity(i, j), "SOURCE") =
                          SourceOfEndpoint[request.endpoint]

\* A bulk request for localities whose two results have hits, all tagged
\* BAHRA.
C14_Witness ==
    /\ RespondedOk
    /\ request.endpoint = "LOCALITIES"
    /\ Len(HandedQueryResults) = 2
    /\ Len(HandedQueryResults[1].entities) = 2
    /\ Len(HandedQueryResults[2].entities) = 1
    /\ DictGet(HandedEntity(2, 1), "SOURCE") = "SOURCE_BAHRA"

\* --------------------------------------------------------------------- C15
\* C15: under any interleaving of the threads, the search handle and the
\* pool are each constructed at most once, and all the calls of a getter
\* return the same object.
C15_ConstructedOnceAndShared ==
    /\ \A r \in Resources : lazy.made[r] <= 1
    /\ \A i, j \in 1..Len(lazy.rets) :
           lazy.rets[i][1] = lazy.rets[j][1] =>
               lazy.rets[i][2] = lazy.rets[j][2]

\* --------------------------------------------------------------------- C16
\* C16: every result handed over by a place request is singular: not
\* iterable, total 1, offset 0 and exactly one entity.  Every result handed
\* over by any other request is a list: iterable, with no more entities than
\* its total.
C16_SingularAndListResults ==
    RespondedOk =>
        \A i \in 1..Len(HandedQueryResults) :
            IF request.endpoint = "PLACE"
            THEN /\ ~HandedQueryResults[i].iterable
                 /\ HandedQueryResults[i].total = 1
                 /\ HandedQueryResults[i].offset = 0
                 /\ Len(HandedQueryResults[i].entities) = 1
            ELSE /\ HandedQueryResults[i].iterable
                 /\ Len(HandedQueryResults[i].entities)
                        <= HandedQueryResults[i].total

\* A bulk response of list results: one holds fewer entities than its total,
\* the other as many.
C16_Witness ==
    /\ RespondedOk
    /\ request.endpoint # "PLACE"
    /\ Len(HandedQueryResults) = 2
    /\ Len(HandedQueryResults[1].entities) = 1
    /\ HandedQueryResults[1].total > 1
    /\ HandedQueryResults[1].offset > 0
    /\ Len(HandedQueryResults[2].entities) = 2
    /\ HandedQueryResults[2].total = 2

\* A bulk place response of two singular results.
C16_WitnessSingular ==
    /\ IsPlaceOk
    /\ Len(HandedQueryResults) = 2
    /\ \A i \in 1..2 : ~HandedQueryResults[i].iterable

\* --------------------------------------------------------------------- C17
\* The first of the four pairs of door numbers d, in the order of
\* street_extents, that contains n.
FirstPairAround(d, n) ==
    LET sl == d[1][2][1][2]
        sr == d[1][2][2][2]
        el == d[2][2][1][2]
        er == d[2][2][2][2]
    IN  IF sr <= n /\ n <= el THEN <<sr, el>>
        ELSE IF sl <= n /\ n <= er THEN <<sl, er>>
        ELSE IF sr <= n /\ n <= er THEN <<sr, er>>
        ELSE IF sl <= n /\ n <= el THEN <<sl, el>>
        ELSE <<NoneNum, NoneNum>>

\* C17: every location lookup is made with start <= number <= end, where
\* number is the number of the query and (start, end) is the pair
\* street_extents gives for the door numbers of the hit and that number; the
\* geometry passed is the hit's.
C17_LookupWithinExtents ==
    \A k \in LocationCalls :
        LET p == body_params[log[k].at[1]]
            hit == ReturnedHit(log[k].at[1], log[k].at[2])
        IN  /\ log[k].number = NumberOf(p)
            /\ log[k].start <= log[k].number
            /\ log[k].number <= log[k].end
            /\ <<log[k].start, log[k].end>> =
                   FirstPairAround(DictGet(hit, "DOOR_NUM"), NumberOf(p))
            /\ log[k].geom = DictGet(hit, "GEOM")

\* Two lookups of one request: one between two different bounds, one with
\* start = number = end.
C17_Witness ==
    \E k1, k2 \in LocationCalls :
        /\ log[k1].start < log[k1].end
        /\ log[k2].start = log[k2].number
        /\ log[k2].end = log[k2].number

====
